---- MODULE Spec2Model ----
(***************************************************************************)
(* Noughts and crosses with an alpha-beta minimax agent                    *)
(* (src/noughts_and_crosses.py).                                           *)
(*                                                                         *)
(* A NoughtsAndCrosses object is a record [board, next_player]; board is   *)
(* a function from <<row, col>> to a cell symbol.  Methods are operators   *)
(* that return what the method returns together with the receiver as it    *)
(* is after the call, so that mutation of the receiver is observable.      *)
(***************************************************************************)
EXTENDS Integers, Sequences, FiniteSets, TLC

VARIABLES state, last, pc, player1, player2, announced

vars == <<state, last, pc, player1, player2, announced>>

----------------------------------------------------------------------------
(* NoughtsAndCrosses.__init__ *)

EMPTY == " "
NOUGHT == "O"
CROSS == "X"
DRAW == "draw"

\* the value `False` that winner() returns for a game in progress
False == "False"

\* side length of the grid
N == 3

Idx == 0 .. (N - 1)

Cells == Idx \X Idx

flip_player(p) == IF p = CROSS THEN NOUGHT ELSE CROSS

NoughtsAndCrosses == [board |-> [p \in Cells |-> EMPTY], next_player |-> CROSS]

----------------------------------------------------------------------------
(* Indexing of the 3x3 numpy array: an index i in -3..2 names row/column   *)
(* i (negative ones count from the end), any other index raises IndexError *)

InRange(i) == -N <= i /\ i < N

norm(i) == IF i < 0 THEN i + N ELSE i

\* valid_move that accepts every cell of the grid
valid_move_any(self, row, col) ==
    IF InRange(row) /\ InRange(col)
    THEN [raised |-> "None", ret |-> TRUE]
    ELSE [raised |-> "IndexError", ret |-> FALSE]

\* valid_move returns a boolean, or raises IndexError
valid_move(self, row, col) ==
    IF InRange(row) /\ InRange(col)
    THEN [raised |-> "None", ret |-> self.board[<<norm(row), norm(col)>>] = EMPTY]
    ELSE [raised |-> "IndexError", ret |-> FALSE]

\* deepcopy gives an independent object with the same field values
deepcopy(self) == self

\* move writing into the receiver itself (no deepcopy)
move_in_place(self, row, col) ==
    LET v == valid_move(self, row, col) IN
    IF v.raised # "None" THEN [raised |-> v.raised, ret |-> self, self |-> self]
    ELSE IF ~v.ret THEN [raised |-> "ValueError", ret |-> self, self |-> self]
    ELSE LET st1 == [self EXCEPT !.board[<<norm(row), norm(col)>>] = self.next_player]
             st2 == [st1 EXCEPT !.next_player = flip_player(st1.next_player)]
         IN [raised |-> "None", ret |-> st2, self |-> st2]

\* move that leaves next_player as it is
move_no_flip(self, row, col) ==
    LET v == valid_move(self, row, col) IN
    IF v.raised # "None" THEN [raised |-> v.raised, ret |-> self, self |-> self]
    ELSE IF ~v.ret THEN [raised |-> "ValueError", ret |-> self, self |-> self]
    ELSE LET st == deepcopy(self)
             st1 == [st EXCEPT !.board[<<norm(row), norm(col)>>] = st.next_player]
         IN [raised |-> "None", ret |-> st1, self |-> self]

\* move: raised is the exception that leaves the call ("None" when it
\* returns), ret the returned object, self the receiver after the call.
move(self, row, col) ==
    LET v == valid_move(self, row, col) IN
    IF v.raised # "None" THEN [raised |-> v.raised, ret |-> self, self |-> self]
    ELSE IF ~v.ret THEN [raised |-> "ValueError", ret |-> self, self |-> self]
    ELSE LET st == deepcopy(self)
             st1 == [st EXCEPT !.board[<<norm(row), norm(col)>>] = st.next_player]
             st2 == [st1 EXCEPT !.next_player = flip_player(st1.next_player)]
         IN [raised |-> "None", ret |-> st2, self |-> self]

----------------------------------------------------------------------------
(* winner *)

row_line(self, i) ==
    /\ \A c \in Idx : self.board[<<i, c>>] = self.board[<<i, 0>>]
    /\ self.board[<<i, 0>>] # EMPTY

col_line(self, i) ==
    /\ \A r \in Idx : self.board[<<r, i>>] = self.board[<<0, i>>]
    /\ self.board[<<0, i>>] # EMPTY

\* the for loop of winner: row i, then column i, for i = 0, 1, 2;
\* "NoReturn" when the loop ends without returning
RECURSIVE winner_loop(_, _)
winner_loop(self, i) ==
    IF i >= N THEN "NoReturn"
    ELSE IF row_line(self, i) THEN self.board[<<i, 0>>]
    ELSE IF col_line(self, i) THEN self.board[<<0, i>>]
    ELSE winner_loop(self, i + 1)

\* winner testing for a full board before it tests the lines
winner_draw_first(self) ==
    LET w == winner_loop(self, 0) IN
    IF \A p \in Cells : self.board[p] # EMPTY THEN DRAW
    ELSE IF w # "NoReturn" THEN w
    ELSE IF /\ EMPTY # self.board[<<0, 0>>]
            /\ self.board[<<0, 0>>] = self.board[<<1, 1>>]
            /\ self.board[<<1, 1>>] = self.board[<<2, 2>>]
         THEN self.board[<<1, 1>>]
    ELSE IF /\ EMPTY # self.board[<<2, 0>>]
            /\ self.board[<<2, 0>>] = self.board[<<1, 1>>]
            /\ self.board[<<1, 1>>] = self.board[<<0, 2>>]
         THEN self.board[<<1, 1>>]
    ELSE False

\* winner with no test for EMPTY on the diagonal (2,0), (1,1), (0,2)
winner_empty_diagonal(self) ==
    LET w == winner_loop(self, 0) IN
    IF w # "NoReturn" THEN w
    ELSE IF /\ EMPTY # self.board[<<0, 0>>]
            /\ self.board[<<0, 0>>] = self.board[<<1, 1>>]
            /\ self.board[<<1, 1>>] = self.board[<<2, 2>>]
         THEN self.board[<<1, 1>>]
    ELSE IF /\ self.board[<<2, 0>>] = self.board[<<1, 1>>]
            /\ self.board[<<1, 1>>] = self.board[<<0, 2>>]
         THEN self.board[<<1, 1>>]
    ELSE IF \A p \in Cells : self.board[p] # EMPTY THEN DRAW
    ELSE False

\* winner without the test of the diagonal (2,0), (1,1), (0,2)
winner_one_diagonal(self) ==
    LET w == winner_loop(self, 0) IN
    IF w # "NoReturn" THEN w
    ELSE IF /\ EMPTY # self.board[<<0, 0>>]
            /\ self.board[<<0, 0>>] = self.board[<<1, 1>>]
            /\ self.board[<<1, 1>>] = self.board[<<2, 2>>]
         THEN self.board[<<1, 1>>]
    ELSE IF \A p \in Cells : self.board[p] # EMPTY THEN DRAW
    ELSE False

winner(self) ==
    LET w == winner_loop(self, 0) IN
    IF w # "NoReturn" THEN w
    ELSE IF /\ EMPTY # self.board[<<0, 0>>]
            /\ self.board[<<0, 0>>] = self.board[<<1, 1>>]
            /\ self.board[<<1, 1>>] = self.board[<<2, 2>>]
         THEN self.board[<<1, 1>>]
    ELSE IF /\ EMPTY # self.board[<<2, 0>>]
            /\ self.board[<<2, 0>>] = self.board[<<1, 1>>]
            /\ self.board[<<1, 1>>] = self.board[<<0, 2>>]
         THEN self.board[<<1, 1>>]
    ELSE IF \A p \in Cells : self.board[p] # EMPTY THEN DRAW
    ELSE False

----------------------------------------------------------------------------
(* actions: np.nonzero lists the matching cells in row-major order *)

RowMajor == [k \in 1 .. (N * N) |-> <<(k - 1) \div N, (k - 1) % N>>]

is_empty_cell(self, p) == self.board[p] = EMPTY

\* actions listing every cell, empty or not
actions_all(self) == RowMajor

\* actions listing the empty cells column by column
actions_by_column(self) ==
    SelectSeq([k \in 1 .. (N * N) |-> <<(k - 1) % N, (k - 1) \div N>>],
              LAMBDA p : is_empty_cell(self, p))

actions(self) == SelectSeq(RowMajor, LAMBDA p : is_empty_cell(self, p))

----------------------------------------------------------------------------
(* ABMinimaxAgent *)

\* math.inf: only ever compared with the values -1, 0, 1
Inf == 2

\* marks an exception leaving get_value (state.move raising)
Raised == 9

max(a, b) == IF a >= b THEN a ELSE b

min(a, b) == IF a <= b THEN a ELSE b

RECURSIVE get_value(_, _, _, _, _)
RECURSIVE get_value_loop(_, _, _, _, _, _, _, _)

\* get_value with the perspective taken from the board at hand instead of
\* the player handed down from the root
get_value_flip(st, player, get_min, alpha, beta) ==
    LET w == winner(st)
    IN IF w = st.next_player THEN 1
       ELSE IF w = flip_player(st.next_player) THEN -1
       ELSE IF w = DRAW THEN 0
       ELSE get_value_loop(st, player, get_min, alpha, beta,
                           IF get_min THEN Inf ELSE -Inf, actions(st), 1)

\* get_value with a win of the other player valued like a win of `player`
get_value_sign(st, player, get_min, alpha, beta) ==
    LET other_player == flip_player(player)
        w == winner(st)
    IN IF w = player THEN 1
       ELSE IF w = other_player THEN 1
       ELSE IF w = DRAW THEN 0
       ELSE get_value_loop(st, player, get_min, alpha, beta,
                           IF get_min THEN Inf ELSE -Inf, actions(st), 1)

get_value(st, player, get_min, alpha, beta) ==
    LET other_player == flip_player(player)
        w == winner(st)
    IN IF w = player THEN 1
       ELSE IF w = other_player THEN -1
       ELSE IF w = DRAW THEN 0
       ELSE get_value_loop(st, player, get_min, alpha, beta,
                           IF get_min THEN Inf ELSE -Inf, actions(st), 1)

\* get_value's loop with the minimizing layer cutting off against beta
\* instead of alpha
get_value_loop_beta(st, player, get_min, alpha, beta, best_value, acts, i) ==
    IF i > Len(acts) THEN best_value
    ELSE LET m == move(st, acts[i][1], acts[i][2])
             action_value == IF m.raised # "None" THEN Raised
                             ELSE get_value(m.ret, player, ~get_min, alpha, beta)
         IN IF action_value = Raised THEN Raised
            ELSE IF ~get_min
            THEN IF action_value >= beta THEN action_value
                 ELSE get_value_loop(st, player, get_min,
                                     max(alpha, action_value), beta,
                                     IF action_value > best_value
                                     THEN action_value ELSE best_value,
                                     acts, i + 1)
            ELSE IF action_value <= beta THEN action_value
                 ELSE get_value_loop(st, player, get_min,
                                     alpha, min(beta, action_value),
                                     IF action_value < best_value
                                     THEN action_value ELSE best_value,
                                     acts, i + 1)

\* the for loop of get_value from its i-th action on, with the current
\* alpha, beta and best_value
get_value_loop(st, player, get_min, alpha, beta, best_value, acts, i) ==
    IF i > Len(acts) THEN best_value
    ELSE LET m == move(st, acts[i][1], acts[i][2])
             action_value == IF m.raised # "None" THEN Raised
                             ELSE get_value(m.ret, player, ~get_min, alpha, beta)
         IN IF action_value = Raised THEN Raised
            ELSE IF ~get_min
            THEN IF action_value >= beta THEN action_value
                 ELSE get_value_loop(st, player, get_min,
                                     max(alpha, action_value), beta,
                                     IF action_value > best_value
                                     THEN action_value ELSE best_value,
                                     acts, i + 1)
            ELSE IF action_value <= alpha THEN action_value
                 ELSE get_value_loop(st, player, get_min,
                                     alpha, min(beta, action_value),
                                     IF action_value < best_value
                                     THEN action_value ELSE best_value,
                                     acts, i + 1)

\* the for loop of next_move from its i-th action on; action_values is the
\* sequence of values the verbose agent prints, one per action
RECURSIVE next_move_loop(_, _, _, _, _, _, _)

\* next_move's loop without the reset of best_action on a better value
next_move_loop_keep(st, player, acts, i, best_action, best_value, action_values) ==
    IF i > Len(acts)
    THEN [raised |-> "None", best_action |-> best_action,
          action_values |-> action_values]
    ELSE LET m == move(st, acts[i][1], acts[i][2])
             action_value == IF m.raised # "None" THEN Raised
                             ELSE get_value(m.ret, player, TRUE, -Inf, Inf)
             better == action_value > best_value
             best_value1 == IF better THEN action_value ELSE best_value
             best_action2 == IF action_value = best_value1
                             THEN Append(best_action, acts[i]) ELSE best_action
         IN IF action_value = Raised
            THEN [raised |-> "ValueError", best_action |-> best_action,
                  action_values |-> action_values]
            ELSE next_move_loop(st, player, acts, i + 1, best_action2, best_value1,
                                Append(action_values, action_value))

next_move_loop(st, player, acts, i, best_action, best_value, action_values) ==
    IF i > Len(acts)
    THEN [raised |-> "None", best_action |-> best_action,
          action_values |-> action_values]
    ELSE LET m == move(st, acts[i][1], acts[i][2])
             action_value == IF m.raised # "None" THEN Raised
                             ELSE get_value(m.ret, player, TRUE, -Inf, Inf)
             better == action_value > best_value
             best_action1 == IF better THEN <<acts[i]>> ELSE best_action
             best_value1 == IF better THEN action_value ELSE best_value
             best_action2 == IF action_value = best_value1
                             THEN Append(best_action1, acts[i]) ELSE best_action1
         IN IF action_value = Raised
            THEN [raised |-> "ValueError", best_action |-> best_action,
                  action_values |-> action_values]
            ELSE next_move_loop(st, player, acts, i + 1, best_action2, best_value1,
                                Append(action_values, action_value))

\* next_move up to the call of random.choice
next_move(st) ==
    next_move_loop(st, st.next_player, actions(st), 1, <<>>, -Inf, <<>>)

----------------------------------------------------------------------------
(* Agent (abstract): any implementation of next_move; the ones          *)
(* considered here return a cell that valid_move accepts                   *)

agent_moves(st) == {p \in Cells : valid_move(st, p[1], p[2]).ret}

----------------------------------------------------------------------------
(* HumanAgent.  A line of input is a sequence of characters, a character *)
(* is its code point (ord).                                                *)

Comma == 44

Plus == 43

Minus == 45

Underscore == 95

\* the characters str.isspace() holds for
Whitespace ==
    (9 .. 13) \cup (28 .. 32) \cup {133, 160, 5760} \cup (8192 .. 8202)
    \cup {8232, 8233, 8239, 8287, 12288}

\* the whitespace int() accepts around a number: not the separators 28..31
IntWhitespace == Whitespace \ (28 .. 31)

\* the digits zero of the decimal digits of Unicode; the digits one to
\* nine of each follow their zero
DecimalZeros ==
    {
     48, 1632, 1776, 1984, 2406, 2534, 2662, 2790,
     2918, 3046, 3174, 3302, 3430, 3558, 3664, 3792,
     3872, 4160, 4240, 6112, 6160, 6470, 6608, 6784,
     6800, 6992, 7088, 7232, 7248, 42528, 43216, 43264,
     43472, 43504, 43600, 44016, 65296, 66720, 68912, 69734,
     69872, 69942, 70096, 70384, 70736, 70864, 71248, 71360,
     71472, 71904, 72016, 72784, 73040, 73120, 92768, 92864,
     93008, 120782, 120792, 120802, 120812, 120822, 123200, 123632,
     125264, 130032}

IsDigit(c) == \E z \in DecimalZeros : c \in z .. (z + 9)

DigitValue(c) == c - (CHOOSE z \in DecimalZeros : c \in z .. (z + 9))

\* str without its leading and trailing characters of ws
RECURSIVE strip_of(_, _)
strip_of(str, ws) ==
    IF str = <<>> THEN str
    ELSE IF str[1] \in ws THEN strip_of(Tail(str), ws)
    ELSE IF str[Len(str)] \in ws THEN strip_of(SubSeq(str, 1, Len(str) - 1), ws)
    ELSE str

\* str.strip(): without leading and trailing whitespace
strip(str) == strip_of(str, Whitespace)

\* str.split(','): the pieces between the commas, at least one
RECURSIVE split(_)
split(str) ==
    IF \A k \in DOMAIN str : str[k] # Comma
    THEN <<str>>
    ELSE LET k == CHOOSE j \in DOMAIN str :
                    str[j] = Comma /\ \A h \in 1 .. (j - 1) : str[h] # Comma
         IN <<SubSeq(str, 1, k - 1)>> \o split(SubSeq(str, k + 1, Len(str)))

\* the number written by a non-empty sequence of digits
RECURSIVE decimal(_)
decimal(digits) ==
    IF Len(digits) = 1 THEN DigitValue(digits[1])
    ELSE 10 * decimal(SubSeq(digits, 1, Len(digits) - 1)) + DigitValue(digits[Len(digits)])

\* int(str): surrounding whitespace and one sign are allowed around
\* decimal digits, which single underscores may separate; anything else
\* raises ValueError
int(str) ==
    LET t == strip_of(str, IntWhitespace)
        signed == t # <<>> /\ t[1] \in {Minus, Plus}
        body == IF signed THEN Tail(t) ELSE t
        digits == SelectSeq(body, IsDigit)
        wellformed ==
            /\ body # <<>>
            /\ IsDigit(body[1]) /\ IsDigit(body[Len(body)])
            /\ \A k \in DOMAIN body : IsDigit(body[k]) \/ body[k] = Underscore
            /\ \A k \in 1 .. (Len(body) - 1) :
                 ~(body[k] = Underscore /\ body[k + 1] = Underscore)
    IN IF ~wellformed
       THEN [raised |-> "ValueError", ret |-> 0]
       ELSE [raised |-> "None",
             ret |-> IF signed /\ t[1] = Minus THEN 0 - decimal(digits) ELSE decimal(digits)]

\* one pass through the while loop of HumanAgent.next_move with `line`
\* read by input(): "again" when the loop goes round (after either
\* message), "return" with the move returned, "raise" with the exception
\* that except ValueError does not catch
human_try(st, line) ==
    LET fields == split(strip(line))
        row == int(fields[1])
        col == int(fields[2])
        v == valid_move(st, row.ret, col.ret)
    IN IF row.raised # "None" THEN [outcome |-> "again", raised |-> "None", ret |-> <<>>]
       ELSE IF Len(fields) < 2
       THEN [outcome |-> "raise", raised |-> "IndexError", ret |-> <<>>]
       ELSE IF col.raised # "None"
       THEN [outcome |-> "again", raised |-> "None", ret |-> <<>>]
       ELSE IF v.raised # "None"
       THEN [outcome |-> "raise", raised |-> v.raised, ret |-> <<>>]
       ELSE IF ~v.ret THEN [outcome |-> "again", raised |-> "None", ret |-> <<>>]
       ELSE [outcome |-> "return", raised |-> "None", ret |-> <<row.ret, col.ret>>]

----------------------------------------------------------------------------
(* Callers *)

NoCall == [op |-> "none"]

\* what random.choice(best_action) can do after next_move's loop ended
\* with r: return any element of a non-empty list, raise IndexError on an
\* empty one; an exception raised in the loop is passed on
random_choice(r) ==
    IF r.raised # "None"
    THEN {[op |-> "next_move", raised |-> r.raised, best_action |-> r.best_action,
           action_values |-> r.action_values, ret |-> <<>>]}
    ELSE IF r.best_action = <<>>
    THEN {[op |-> "next_move", raised |-> "IndexError", best_action |-> r.best_action,
           action_values |-> r.action_values, ret |-> <<>>]}
    ELSE {[op |-> "next_move", raised |-> "None", best_action |-> r.best_action,
           action_values |-> r.action_values, ret |-> r.best_action[k]] :
             k \in 1 .. Len(r.best_action)}

\* the outcomes of ABMinimaxAgent().next_move(st)
AgentCalls(st) == UNION {random_choice(r) : r \in {next_move(st)}}

(* Spec: a caller holds a board and calls move on it with any cell,        *)
(* keeping the returned board when the call returns.                       *)

Init ==
    /\ state = NoughtsAndCrosses
    /\ last = NoCall
    /\ pc = "api"
    /\ player1 = "none"
    /\ player2 = "none"
    /\ announced = "none"

Move ==
    /\ pc = "api"
    /\ \E row \in Idx, col \in Idx :
        LET r == move(state, row, col) IN
        /\ last' = [op |-> "move", row |-> row, col |-> col, raised |-> r.raised,
                    self_before |-> state, self_after |-> r.self, ret |-> r.ret]
        /\ state' = IF r.raised = "None" THEN r.ret ELSE r.self
    /\ UNCHANGED <<pc, player1, player2, announced>>

\* the caller calls state.actions()
CallActions ==
    /\ pc \in {"api", "board"}
    /\ last' = [op |-> "actions", ret |-> actions(state)]
    /\ UNCHANGED <<state, pc, player1, player2, announced>>

\* the caller calls state.winner()
CallWinner ==
    /\ pc \in {"api", "board", "grid"}
    /\ last' = [op |-> "winner", ret |-> winner(state)]
    /\ UNCHANGED <<state, pc, player1, player2, announced>>

Next == Move \/ CallActions \/ CallWinner

Spec == Init /\ [][Next]_vars

(* BoardSpec: the boards of a game, from the empty board by legal moves    *)
(* while winner() reports no result, with actions() and winner() called    *)
(* on each.                                                                *)

InitBoard ==
    /\ state = NoughtsAndCrosses
    /\ last = NoCall
    /\ pc = "board"
    /\ player1 = "none"
    /\ player2 = "none"
    /\ announced = "none"

PlayLegal ==
    /\ pc = "board"
    /\ winner(state) = False
    /\ \E p \in agent_moves(state) : state' = move(state, p[1], p[2]).ret
    /\ last' = NoCall
    /\ UNCHANGED <<pc, player1, player2, announced>>

NextBoard == PlayLegal \/ CallActions \/ CallWinner

BoardSpec == InitBoard /\ [][NextBoard]_vars

(* GridSpec: winner() called on an object whose board was set to any of   *)
(* the 3^9 grids.                                                          *)

InitGrid ==
    /\ state \in {[board |-> b, next_player |-> CROSS] :
                    b \in [Cells -> {EMPTY, NOUGHT, CROSS}]}
    /\ last = NoCall
    /\ pc = "grid"
    /\ player1 = "none"
    /\ player2 = "none"
    /\ announced = "none"

NextGrid == CallWinner

GridSpec == InitGrid /\ [][NextGrid]_vars

(* IndexSpec: valid_move and move called with any row and column from    *)
(* one below -3 to one above 2, on the boards of at most MaxIndexPlies     *)
(* pieces.                                                                 *)

MaxIndexPlies == 2

WideIdx == (0 - N - 1) .. N

Pieces(st) == Cardinality({p \in Cells : st.board[p] # EMPTY})

InitIndex ==
    /\ state = NoughtsAndCrosses
    /\ last = NoCall
    /\ pc = "index"
    /\ player1 = "none"
    /\ player2 = "none"
    /\ announced = "none"

CallValidMove ==
    /\ pc = "index"
    /\ \E row \in WideIdx, col \in WideIdx :
        LET r == valid_move(state, row, col) IN
        last' = [op |-> "valid_move", row |-> row, col |-> col, raised |-> r.raised,
                 self_before |-> state, self_after |-> state, ret |-> r.ret]
    /\ UNCHANGED <<state, pc, player1, player2, announced>>

CallMove ==
    /\ pc = "index"
    /\ Pieces(state) < MaxIndexPlies
    /\ \E row \in WideIdx, col \in WideIdx :
        LET r == move(state, row, col) IN
        /\ last' = [op |-> "move", row |-> row, col |-> col, raised |-> r.raised,
                    self_before |-> state, self_after |-> r.self, ret |-> r.ret]
        /\ state' = IF r.raised = "None" THEN r.ret ELSE r.self
    /\ UNCHANGED <<pc, player1, player2, announced>>

NextIndex == CallValidMove \/ CallMove

IndexSpec == InitIndex /\ [][NextIndex]_vars

(* HumanSpec: run_game with human players as far as the input goes: at   *)
(* "prompt" the agent reads a line (any of InputLines); after a refused    *)
(* line it prints its message and asks again; a returned move is applied   *)
(* by the driver, up to MaxHumanPlies pieces.                              *)

MaxLineLen == 4

MaxHumanPlies == 1

\* the characters , - 1 3 x _ tab and ARABIC-INDIC DIGIT THREE
InputChars == {Comma, Minus, 49, 51, 120, Underscore, 9, 1635}

InputLines == UNION {[1 .. n -> InputChars] : n \in 0 .. MaxLineLen}

InitHuman ==
    /\ state = NoughtsAndCrosses
    /\ last = NoCall
    /\ pc = "prompt"
    /\ player1 = "HumanAgent"
    /\ player2 = "HumanAgent"
    /\ announced = "none"

\* input() and what the try block makes of the line
HumanLine ==
    /\ pc = "prompt"
    /\ \E line \in InputLines :
        LET t == human_try(state, line) IN
        /\ last' = [op |-> "input", line |-> line, outcome |-> t.outcome,
                    raised |-> t.raised, ret |-> t.ret]
        /\ pc' = IF t.outcome = "again" THEN "again"
                 ELSE IF t.outcome = "return" THEN "moved"
                 ELSE "raised"
    /\ UNCHANGED <<state, player1, player2, announced>>

\* the message after a refused line, and round the while loop
AskAgain ==
    /\ pc = "again"
    /\ pc' = "prompt"
    /\ last' = NoCall
    /\ UNCHANGED <<state, player1, player2, announced>>

\* state = state.move(move[0], move[1])
DriverApplies ==
    /\ pc = "moved"
    /\ Pieces(state) < MaxHumanPlies
    /\ LET m == move(state, last.ret[1], last.ret[2]) IN
       IF m.raised # "None"
       THEN pc' = "raised" /\ UNCHANGED <<state, last>>
       ELSE pc' = "prompt" /\ state' = m.ret /\ last' = NoCall
    /\ UNCHANGED <<player1, player2, announced>>

NextHuman == HumanLine \/ AskAgain \/ DriverApplies

HumanSpec == InitHuman /\ [][NextHuman]_vars

(* SearchSpec: at every board of a game (terminal ones included) the       *)
(* agent is asked for a move; then, while the game is in progress, any     *)
(* legal move is played.                                                   *)

InitSearch ==
    /\ state = NoughtsAndCrosses
    /\ last = NoCall
    /\ pc = "ask"
    /\ player1 = "none"
    /\ player2 = "none"
    /\ announced = "none"

AskAgent ==
    /\ pc = "ask"
    /\ last' \in AgentCalls(state)
    /\ pc' = "play"
    /\ UNCHANGED <<state, player1, player2, announced>>

PlayAny ==
    /\ pc = "play"
    /\ winner(state) = False
    /\ \E p \in agent_moves(state) : state' = move(state, p[1], p[2]).ret
    /\ last' = NoCall
    /\ pc' = "ask"
    /\ UNCHANGED <<player1, player2, announced>>

NextSearch == AskAgent \/ PlayAny

SearchSpec == InitSearch /\ [][NextSearch]_vars


----------------------------------------------------------------------------
(* run_game: pc is the position in the function.  "while" is the loop      *)
(* test, "player1"/"player2" the two halves of the loop body, "returned"   *)
(* after a return, "raised" after an exception left the function.          *)
(* player1, player2 are the kinds of the two agents: "HumanAgent",         *)
(* "ABMinimaxAgent" or "Agent" (any other implementation, returning legal  *)
(* moves).                                                                 *)

(* WindowSpec: on every board of a game get_value is called once for each *)
(* player and each window alpha < beta, with get_min as the search sets it *)
(* (the layer minimizes when the player to move is not `player`).          *)

Windows == {w \in (-Inf .. Inf) \X (-Inf .. Inf) : w[1] < w[2]}

InitWindow ==
    /\ state = NoughtsAndCrosses
    /\ last = NoCall
    /\ pc = "window"
    /\ player1 = "none"
    /\ player2 = "none"
    /\ announced = "none"

CallGetValue ==
    /\ pc = "window"
    /\ \E player \in {CROSS, NOUGHT}, w \in Windows :
         \E v \in {get_value(state, player, state.next_player # player, w[1], w[2])} :
            last' = [op |-> "get_value", player |-> player,
                     get_min |-> (state.next_player # player),
                     alpha |-> w[1], beta |-> w[2], ret |-> v]
    /\ pc' = "valued"
    /\ UNCHANGED <<state, player1, player2, announced>>

PlayOn ==
    /\ pc = "valued"
    /\ winner(state) = False
    /\ \E p \in agent_moves(state) : state' = move(state, p[1], p[2]).ret
    /\ last' = NoCall
    /\ pc' = "window"
    /\ UNCHANGED <<player1, player2, announced>>

NextWindow == CallGetValue \/ PlayOn

WindowSpec == InitWindow /\ [][NextWindow]_vars

AgentKinds == {"HumanAgent", "ABMinimaxAgent", "Agent"}

\* what a player types for a row or a column: 0 1 2 3 -1 x
FieldTexts == {<<48>>, <<49>>, <<50>>, <<51>>, <<Minus, 49>>, <<120>>}

\* the lines typed in a game: one field, or two with a comma between
GameLines == FieldTexts \cup {a \o <<Comma>> \o b : a \in FieldTexts, b \in FieldTexts}

\* HumanAgent.next_move(st) as it ends after any refused lines: with the
\* move returned for a line or with the exception a line raises
human_calls(st) ==
    {[op |-> "next_move", raised |-> t.raised, best_action |-> <<>>,
      action_values |-> <<>>, ret |-> t.ret] :
        t \in {u \in {human_try(st, line) : line \in GameLines} : u.outcome # "again"}}

\* the calls agent.next_move(st) can make, by kind of agent
provider_calls(kind, st) ==
    IF kind = "ABMinimaxAgent" THEN AgentCalls(st)
    ELSE IF kind = "HumanAgent" THEN human_calls(st)
    ELSE {[op |-> "next_move", raised |-> "None", best_action |-> <<>>,
           action_values |-> <<>>, ret |-> p] : p \in agent_moves(st)}

InitGame ==
    /\ state = NoughtsAndCrosses
    /\ last = NoCall
    /\ pc = "while"
    /\ player1 \in AgentKinds
    /\ player2 \in AgentKinds
    /\ announced = "none"

\* while not state.winner():
LoopTest ==
    /\ pc = "while"
    /\ pc' = IF winner(state) = False THEN "player1" ELSE "returned"
    /\ UNCHANGED <<state, last, player1, player2, announced>>

\* one half of the loop body without the test for a draw
turn_no_draw(st, c, mark, wins, goto) ==
    IF c.raised # "None"
    THEN [state |-> st, pc |-> "raised", announced |-> "none"]
    ELSE LET m == move(st, c.ret[1], c.ret[2])
             w == winner(m.ret)
         IN IF m.raised # "None"
            THEN [state |-> st, pc |-> "raised", announced |-> "none"]
            ELSE IF w = mark
            THEN [state |-> m.ret, pc |-> "returned", announced |-> wins]
            ELSE [state |-> m.ret, pc |-> goto, announced |-> "none"]

\* one half of the loop body after the agent returned the call c: apply
\* its move, test the result for a win of `mark` or a draw
turn(st, c, mark, wins, goto) ==
    IF c.raised # "None"
    THEN [state |-> st, pc |-> "raised", announced |-> "none"]
    ELSE LET m == move(st, c.ret[1], c.ret[2])
             w == winner(m.ret)
         IN IF m.raised # "None"
            THEN [state |-> st, pc |-> "raised", announced |-> "none"]
            ELSE IF w = mark
            THEN [state |-> m.ret, pc |-> "returned", announced |-> wins]
            ELSE IF w = DRAW
            THEN [state |-> m.ret, pc |-> "returned", announced |-> "It's a draw."]
            ELSE [state |-> m.ret, pc |-> goto, announced |-> "none"]

Player1Turn ==
    /\ pc = "player1"
    /\ \E c \in provider_calls(player1, state) :
         LET t == turn(state, c, CROSS, "Player one wins!", "player2") IN
         /\ state' = t.state
         /\ pc' = t.pc
         /\ announced' = t.announced
    /\ UNCHANGED <<last, player1, player2>>

Player2Turn ==
    /\ pc = "player2"
    /\ \E c \in provider_calls(player2, state) :
         LET t == turn(state, c, NOUGHT, "Player two wins!", "while") IN
         /\ state' = t.state
         /\ pc' = t.pc
         /\ announced' = t.announced
    /\ UNCHANGED <<last, player1, player2>>

NextGame == LoopTest \/ Player1Turn \/ Player2Turn

GameSpec == InitGame /\ [][NextGame]_vars

----------------------------------------------------------------------------
(* The rules of the game, stated independently of the program, and the     *)
(* exact game-theoretic value of every position by backward induction on   *)
(* the number of pieces.                                                   *)

Lines ==
    {{<<r, c>> : c \in Idx} : r \in Idx} \cup {{<<r, c>> : r \in Idx} : c \in Idx}
    \cup {{<<i, i>> : i \in Idx}, {<<N - 1 - i, i>> : i \in Idx}}

HasLine(b, sym) == \E l \in Lines : \A p \in l : b[p] = sym

Count(b, sym) == Cardinality({p \in Cells : b[p] = sym})

Legal(s) == {p \in Cells : s.board[p] = EMPTY}

InProgress(s) ==
    ~HasLine(s.board, CROSS) /\ ~HasLine(s.board, NOUGHT) /\ Legal(s) # {}

Child(s, p) ==
    [board |-> [s.board EXCEPT ![p] = s.next_player],
     next_player |-> flip_player(s.next_player)]

Positions ==
    {[board |-> b,
      next_player |-> IF Count(b, CROSS) = Count(b, NOUGHT) THEN CROSS ELSE NOUGHT] :
        b \in {x \in [Cells -> {EMPTY, NOUGHT, CROSS}] :
                 Count(x, CROSS) - Count(x, NOUGHT) \in {0, 1}}}

SetMax(S) == CHOOSE x \in S : \A y \in S : y <= x

SetMin(S) == CHOOSE x \in S : \A y \in S : x <= y

\* the value for Cross of every position with at least k pieces
RECURSIVE ExactFrom(_)
ExactFrom(k) ==
    IF k > N * N THEN <<>>
    ELSE LET deeper == ExactFrom(k + 1) IN
         [s \in {t \in Positions : Count(t.board, EMPTY) = N * N - k} |->
            IF HasLine(s.board, CROSS) THEN 1
            ELSE IF HasLine(s.board, NOUGHT) THEN -1
            ELSE IF Legal(s) = {} THEN 0
            ELSE IF s.next_player = CROSS
                 THEN SetMax({deeper[Child(s, p)] : p \in Legal(s)})
                 ELSE SetMin({deeper[Child(s, p)] : p \in Legal(s)})] @@ deeper

ExactX == ExactFrom(0)

\* the value of position s for `player`
Exact(s, player) == IF player = CROSS THEN ExactX[s] ELSE -ExactX[s]

\* the value, for the player to move at s, of playing p
MoveValue(s, p) == Exact(Child(s, p), s.next_player)

BestMoves(s) == {p \in Legal(s) : \A q \in Legal(s) : MoveValue(s, q) <= MoveValue(s, p)}

Elems(seq) == {seq[k] : k \in DOMAIN seq}

Asked == last.op = "next_move"

----------------------------------------------------------------------------
\* C1: on every board in progress the agent returns only legal moves whose
\* exact minimax value, for the player to move at the root, is the maximum
\* over all legal moves.
C1_OptimalMoves ==
    (Asked /\ InProgress(state)) =>
        /\ last.raised = "None"
        /\ Elems(last.best_action) \subseteq BestMoves(state)
        /\ last.ret \in BestMoves(state)

\* the agent was asked as Nought on a board where some legal moves are
\* worse than others, and answered
C1_Witness ==
    /\ Asked /\ InProgress(state)
    /\ state.next_player = NOUGHT
    /\ BestMoves(state) # Legal(state)
    /\ last.ret \in BestMoves(state)

\* C3: the value the pruned search gives each legal move is the value of
\* exhaustive minimax, so both have the same set of maximum-value moves.
C3_PrunedEqualsExhaustive ==
    (Asked /\ InProgress(state)) =>
        LET acts == SelectSeq(RowMajor, LAMBDA p : p \in Legal(state))
            vals == last.action_values
        IN /\ Len(vals) = Len(acts)
           /\ \A k \in DOMAIN acts : vals[k] = MoveValue(state, acts[k])
           /\ {acts[k] : k \in {j \in DOMAIN acts : \A h \in DOMAIN acts : vals[h] <= vals[j]}}
                = BestMoves(state)

\* a search over eight empty cells whose moves have different values
C3_Witness ==
    /\ Asked /\ InProgress(state)
    /\ Cardinality(Legal(state)) = 8
    /\ Elems(last.action_values) = {-1, 0}

\* C4: the list handed to random.choice holds every maximum-value move, no
\* other move, and each of them once.
C4_UniformCandidates ==
    (Asked /\ InProgress(state)) =>
        /\ Elems(last.best_action) = BestMoves(state)
        /\ Len(last.best_action) = Cardinality(BestMoves(state))

\* the moves that complete a line of the player to move
ImmediateWins(s) == {p \in Legal(s) : HasLine(Child(s, p).board, s.next_player)}

\* the empty cells that complete a line holding two Cross cells
Threats(s) == {p \in Legal(s) : HasLine([s.board EXCEPT ![p] = CROSS], CROSS)}

CrossCanWinNow == Asked /\ InProgress(state) /\ state.next_player = CROSS
                  /\ ImmediateWins(state) # {}

\* C5 as stated: when Cross can win at once, every move the agent can
\* return wins on that ply.
C5_OnlyImmediateWins ==
    CrossCanWinNow => Elems(last.best_action) \subseteq ImmediateWins(state)

\* C5 amended: when Cross can win at once, every move the agent can return
\* has value +1 for Cross (it wins at once or forces a win), and every
\* immediately winning move is among them.
C5_OnlyWinningMoves ==
    CrossCanWinNow =>
        /\ last.raised = "None"
        /\ \A p \in Elems(last.best_action) : MoveValue(state, p) = 1
        /\ MoveValue(state, last.ret) = 1
        /\ ImmediateWins(state) \subseteq Elems(last.best_action)

\* Cross could win at once, some legal move does not win at all, and the
\* agent returned an immediately winning move
C5_Witness ==
    /\ CrossCanWinNow
    /\ last.ret \in ImmediateWins(state)
    /\ \E p \in Legal(state) : MoveValue(state, p) < 1

NoughtMustBlock == Asked /\ InProgress(state) /\ state.next_player = NOUGHT
                   /\ Threats(state) # {} /\ ImmediateWins(state) = {}

\* C6 as stated: when Cross threatens a line and Nought cannot win at once,
\* every move the agent can return occupies a threatened cell.
C6_AlwaysBlocks ==
    NoughtMustBlock => Elems(last.best_action) \subseteq Threats(state)

\* C6 amended: the same, provided Nought is not lost already (some move of
\* Nought's avoids defeat).
C6_BlocksUnlessLost ==
    (NoughtMustBlock /\ Exact(state, NOUGHT) >= 0) =>
        /\ last.raised = "None"
        /\ Elems(last.best_action) \subseteq Threats(state)
        /\ last.ret \in Threats(state)

\* Nought had to block, could, had other cells to choose from, and blocked
C6_Witness ==
    /\ NoughtMustBlock /\ Exact(state, NOUGHT) >= 0
    /\ Legal(state) # Threats(state)
    /\ last.ret \in Threats(state)

\* C7: asked on a board that is won or full, the agent fails: it returns
\* no move.
C7_TerminalBoardFails ==
    (Asked /\ ~InProgress(state)) => last.raised # "None"

\* C8: on every board in progress the agent's search ends without an
\* error, with a value -1, 0 or 1 for each legal move, a non-empty list of
\* candidates and a returned move whose cell is empty.
C8_ReturnsLegalMove ==
    (Asked /\ InProgress(state)) =>
        /\ last.raised = "None"
        /\ last.best_action # <<>>
        /\ last.ret \in Cells
        /\ state.board[last.ret] = EMPTY
        /\ Len(last.action_values) = Cardinality(Legal(state))
        /\ Elems(last.action_values) \subseteq {-1, 0, 1}

\* the agent was asked on the empty board, where the search is deepest,
\* and returned an empty cell
C8_Witness ==
    /\ Asked /\ InProgress(state)
    /\ Cardinality(Legal(state)) = N * N
    /\ last.raised = "None"
    /\ state.board[last.ret] = EMPTY

BothSearch == player1 = "ABMinimaxAgent" /\ player2 = "ABMinimaxAgent"

\* C2: in a game of run_game between two search agents no board ever has
\* a winner, whatever the random choices, and the game ends in a draw.
C2_SelfPlayDraw ==
    BothSearch =>
        /\ ~HasLine(state.board, CROSS)
        /\ ~HasLine(state.board, NOUGHT)
        /\ pc # "raised"
        /\ pc = "returned" => (announced = "It's a draw." /\ Legal(state) = {})

\* a game between two search agents has ended
C2_Witness == BothSearch /\ pc = "returned" /\ announced = "It's a draw."

MoveCalled == last.op = "move"

TargetBefore == last.self_before.board[<<last.row, last.col>>]

\* C9: move on a cell that is not empty raises ValueError and leaves the
\* board it was called on (cells and next player) as it was.
C9_OccupiedCellRaises ==
    (MoveCalled /\ TargetBefore # EMPTY) =>
        /\ last.raised = "ValueError"
        /\ last.self_after = last.self_before
        /\ state = last.self_before

\* Cross, to move, called move on a cell holding a Cross
C9_Witness ==
    /\ MoveCalled /\ TargetBefore = CROSS
    /\ last.self_before.next_player = CROSS
    /\ last.raised = "ValueError"

\* C10: move on an empty cell returns a board that differs from the one it
\* was called on in the target cell, which holds the mover's symbol, and
\* in the next player, which is the other player; the board it was called
\* on is as it was.
C10_MoveReturnsNewBoard ==
    (MoveCalled /\ TargetBefore = EMPTY) =>
        /\ last.raised = "None"
        /\ last.self_before.next_player \in {CROSS, NOUGHT}
        /\ last.ret.board[<<last.row, last.col>>] = last.self_before.next_player
        /\ \A p \in Cells \ {<<last.row, last.col>>} :
              last.ret.board[p] = last.self_before.board[p]
        /\ last.ret.next_player \in {CROSS, NOUGHT} \ {last.self_before.next_player}
        /\ last.self_after = last.self_before
        /\ state = last.ret

\* Nought moved onto an empty cell of a board that holds pieces already
C10_Witness ==
    /\ MoveCalled /\ TargetBefore = EMPTY
    /\ last.self_before.next_player = NOUGHT
    /\ last.raised = "None"
    /\ last.ret.board[<<last.row, last.col>>] = NOUGHT
    /\ Count(last.self_before.board, EMPTY) < N * N - 1

Diff(s) == Count(s.board, CROSS) - Count(s.board, NOUGHT)

\* C11: on every board built from the empty board by moves that returned,
\* the number of Cross cells less the number of Nought cells is 0 or 1,
\* and the next player is Cross when it is 0 and Nought when it is 1.
C11_CountsAndTurn ==
    /\ Diff(state) \in {0, 1}
    /\ state.next_player \in {CROSS, NOUGHT}
    /\ state.next_player = CROSS <=> Diff(state) = 0
    /\ state.next_player = NOUGHT <=> Diff(state) = 1

\* a move returned a board with five pieces, three of them Cross
C11_Witness ==
    /\ MoveCalled /\ last.raised = "None" /\ state = last.ret
    /\ Count(state.board, CROSS) = 3 /\ Count(state.board, NOUGHT) = 2
    /\ state.next_player = NOUGHT

Rank(p) == p[1] * N + p[2]

\* C12: actions returns the empty cells and nothing else, each once, rows
\* ascending and columns ascending within a row; its length and the number
\* of cells that are not empty add up to 9.
C12_ActionsRowMajor ==
    last.op = "actions" =>
        /\ Elems(last.ret) = Legal(state)
        /\ \A i, j \in DOMAIN last.ret : i < j => Rank(last.ret[i]) < Rank(last.ret[j])
        /\ Len(last.ret) + Count(state.board, CROSS) + Count(state.board, NOUGHT) = N * N

\* actions was called on a board with pieces on it and empty cells in
\* more than one row and more than one column
C12_Witness ==
    /\ last.op = "actions"
    /\ Count(state.board, EMPTY) < N * N
    /\ \E i, j \in DOMAIN last.ret :
          last.ret[i][1] < last.ret[j][1] /\ last.ret[i][2] > last.ret[j][2]

WinnerCalled == last.op = "winner"

Full(b) == \A p \in Cells : b[p] # EMPTY

AnyLine(b) == HasLine(b, CROSS) \/ HasLine(b, NOUGHT)

\* C13: on every board of a game winner returns the symbol s exactly when
\* some row, column or diagonal holds three cells s, "draw" exactly when
\* there is no such line and no empty cell, and False otherwise.
C13_WinnerClassifies ==
    WinnerCalled =>
        /\ \A sym \in {CROSS, NOUGHT} : last.ret = sym <=> HasLine(state.board, sym)
        /\ last.ret = DRAW <=> (~AnyLine(state.board) /\ Full(state.board))
        /\ last.ret = False <=> (~AnyLine(state.board) /\ ~Full(state.board))

\* winner was called on a full board that holds a line of Cross
C13_Witness ==
    /\ WinnerCalled
    /\ Full(state.board) /\ HasLine(state.board, CROSS)
    /\ last.ret = CROSS

\* the lines in the order rows, columns, diagonals
LinesInOrder ==
    [k \in 1 .. (2 * N + 2) |->
        IF k <= N THEN {<<k - 1, c>> : c \in Idx}
        ELSE IF k <= 2 * N THEN {<<r, k - N - 1>> : r \in Idx}
        ELSE IF k = 2 * N + 1 THEN {<<i, i>> : i \in Idx}
        ELSE {<<N - 1 - i, i>> : i \in Idx}]

Complete(b, l) == \E sym \in {CROSS, NOUGHT} : \A p \in l : b[p] = sym

\* the result of testing the lines in the order rows, columns, diagonals
WinnerInOrder(b) ==
    IF \E k \in DOMAIN LinesInOrder : Complete(b, LinesInOrder[k])
    THEN LET k == CHOOSE j \in DOMAIN LinesInOrder :
                    /\ Complete(b, LinesInOrder[j])
                    /\ \A h \in 1 .. (j - 1) : ~Complete(b, LinesInOrder[h])
         IN b[CHOOSE p \in LinesInOrder[k] : TRUE]
    ELSE IF Full(b) THEN DRAW
    ELSE False

\* C16: on every board of a game all completed lines hold the symbol of
\* the player who moved last, and winner (row i, then column i, then the
\* diagonals) returns what testing rows, then columns, then diagonals gives.
C16_OneWinner ==
    /\ \A l \in Lines : \A sym \in {CROSS, NOUGHT} :
          (\A p \in l : state.board[p] = sym) => sym = flip_player(state.next_player)
    /\ WinnerCalled => last.ret = WinnerInOrder(state.board)

\* winner was called on a board with a completed column and a completed
\* row below row 0: the two orders meet different lines first
C16_Witness ==
    /\ WinnerCalled
    /\ \E r \in 1 .. (N - 1), c \in Idx :
          /\ Complete(state.board, {<<r, k>> : k \in Idx})
          /\ Complete(state.board, {<<k, c>> : k \in Idx})
          /\ \A c2 \in 0 .. (c - 1) : ~Complete(state.board, {<<k, c2>> : k \in Idx})
          /\ \A r2 \in 0 .. (r - 1) : ~Complete(state.board, {<<r2, k>> : k \in Idx})
          /\ c < r

MainDiagonal == {<<i, i>> : i \in Idx}

AntiDiagonal == {<<N - 1 - i, i>> : i \in Idx}

RowOrColumnLine(b) ==
    \E k \in Idx : Complete(b, {<<k, c>> : c \in Idx}) \/ Complete(b, {<<r, k>> : r \in Idx})

\* C18: on every one of the 3^9 grids winner never returns EMPTY, reports
\* a symbol only when that symbol holds a line and whenever some symbol
\* does, and, where no row or column decides, reports sym exactly when
\* one of the two diagonals holds three sym: both diagonals alike.
C18_DiagonalsAlike ==
    WinnerCalled =>
        /\ last.ret # EMPTY
        /\ last.ret \in {CROSS, NOUGHT} <=> AnyLine(state.board)
        /\ last.ret \in {CROSS, NOUGHT} => HasLine(state.board, last.ret)
        /\ ~RowOrColumnLine(state.board) =>
              \A sym \in {CROSS, NOUGHT} :
                  last.ret = sym <=>
                      \/ \A p \in MainDiagonal : state.board[p] = sym
                      \/ \A p \in AntiDiagonal : state.board[p] = sym

\* winner was called on a grid no game reaches, whose only line is the
\* diagonal (2,0), (1,1), (0,2), held by Nought
C18_Witness ==
    /\ WinnerCalled
    /\ Diff(state) \notin {0, 1}
    /\ \A p \in AntiDiagonal : state.board[p] = NOUGHT
    /\ \A l \in Lines \ {AntiDiagonal} : ~Complete(state.board, l)
    /\ last.ret = NOUGHT

OutsideGrid == last.op \in {"valid_move", "move"}
               /\ (last.row \notin Idx \/ last.col \notin Idx)

\* C14: valid_move and move called with a row or column outside 0..2,
\* above 2 or negative, raise IndexError: they return nothing, and the
\* board is as it was.
C14_OutsideGridRaises ==
    OutsideGrid =>
        /\ last.raised = "IndexError"
        /\ state = last.self_before

\* C15: whatever line is typed, the human agent either asks again or
\* returns a move with row and column in 0..2 that names an empty cell; no
\* exception reaches the driver.
C15_HumanInputValidated ==
    last.op = "input" =>
        \/ last.outcome = "again"
        \/ /\ last.outcome = "return"
           /\ last.ret \in Cells
           /\ state.board[last.ret] = EMPTY

Placed(s, t, sym) ==
    \E p \in Cells : /\ s.board[p] = EMPTY
                     /\ t.board = [s.board EXCEPT ![p] = sym]

ProviderRaised == pc = "raised"

\* where the driver stands against the board it holds
DriverPosition ==
    /\ ProviderRaised => "HumanAgent" \in {player1, player2}
    /\ pc = "player1" =>
         InProgress(state) /\ state.next_player = CROSS /\ Diff(state) = 0
    /\ pc = "player2" =>
         InProgress(state) /\ state.next_player = NOUGHT /\ Diff(state) = 1
    /\ pc = "returned" => ~InProgress(state)

\* what one statement of the driver does to the board
DriverStep ==
    /\ pc = "while" => (state' = state /\ pc' = "player1")
    /\ (pc = "player1" /\ ~ProviderRaised') =>
         (Placed(state, state', CROSS) /\ pc' \in {"player2", "returned"})
    /\ (pc = "player2" /\ ~ProviderRaised') =>
         (Placed(state, state', NOUGHT) /\ pc' \in {"while", "returned"})
    /\ ProviderRaised' =>
         (state' = state /\ (IF pc = "player1" THEN player1 ELSE player2) = "HumanAgent")
    /\ pc \notin {"while", "player1", "player2"} => FALSE

\* C17: in run_game, as long as the providers return moves (only the
\* human provider can raise instead), a provider is asked only
\* on a board in progress where it is its turn, player one adds one Cross
\* and then player two one Nought, each ply filling an empty cell of the
\* nine (so there are at most nine plies), nothing runs after the return,
\* and the board held at the return is not in progress.
C17_DriverAlternates ==
    /\ []DriverPosition
    /\ [][DriverStep]_vars

\* a game that returned after nine plies
C17_Witness == pc = "returned" /\ Full(state.board) /\ Diff(state) = 1

Announced(b) ==
    IF HasLine(b, CROSS) THEN "Player one wins!"
    ELSE IF HasLine(b, NOUGHT) THEN "Player two wins!"
    ELSE IF Full(b) THEN "It's a draw."
    ELSE "none"

\* C19: when run_game has returned it has announced "Player one wins!"
\* exactly on a board with a Cross line, "Player two wins!" exactly on one
\* with a Nought line, "It's a draw." exactly on a full board without a
\* line, and never nothing; while it runs nothing is announced, the board
\* has no line, and the loop test at the top finds the game in progress.
C19_AnnouncesFinalBoard ==
    /\ pc # "raised"
    /\ ~(HasLine(state.board, CROSS) /\ HasLine(state.board, NOUGHT))
    /\ pc = "returned" =>
         (announced # "none" /\ announced = Announced(state.board))
    /\ pc # "returned" =>
         (announced = "none" /\ ~AnyLine(state.board))
    /\ pc = "while" => InProgress(state)


ValueCalled == last.op = "get_value"

\* C20: on every board of a game and for every window alpha < beta with
\* bounds among -inf, -1, 0, 1, inf, get_value returns v in {-1, 0, 1};
\* with m the exact minimax value of the board for the player, v = m when
\* alpha < m < beta, v <= alpha when m <= alpha, v >= beta when m >= beta.
C20_WindowedValue ==
    ValueCalled =>
        LET v == last.ret
            m == Exact(state, last.player)
        IN /\ v \in {-1, 0, 1}
           /\ (last.alpha < m /\ m < last.beta) => v = m
           /\ m <= last.alpha => v <= last.alpha
           /\ m >= last.beta => v >= last.beta

\* a call on a board in progress that was cut off below the window and
\* returned a bound that is not the exact value
C20_Witness ==
    /\ ValueCalled /\ InProgress(state)
    /\ Exact(state, last.player) <= last.alpha
    /\ last.ret # Exact(state, last.player)

====
